---- MODULE Spec2Model ----
(***************************************************************************)
(* A model of src/AI-generated_project/app.js: the todo application's task *)
(* store (tasks, loadTasks/saveTasks over localStorage), its ordering      *)
(* engine (onDrop), its filter state and its view projection (renderTasks),*)
(* its theme selector and its live region (announce).                      *)
(* One action per event handler or exposed function; a handler runs to     *)
(* completion, so each action is the whole handler, including the save,    *)
(* the re-render and the announcement it ends with.  localStorage.setItem  *)
(* may throw (quota exceeded): the exception leaves the handler at the     *)
(* write, skipping whatever follows it.                                    *)
(***************************************************************************)
EXTENDS Integers, Sequences, FiniteSets, TLC

\* ------------------------------------------------------------------ bounds
\* the longest collection the add handlers build (Spec, SpecQuota)
MaxTasks == 2
\* the largest reading of Date.now()
MaxClock == 2
\* how many writes to localStorage may throw in one run
MaxFailures == 1
\* the longest collection, and the largest order value, of a snapshot an
\* earlier session left in localStorage (SpecReorder)
MaxStored == 3
MaxOrder == 3
\* the longest array among the values found under the tasks key at startup
\* (SpecStartup)
MaxItems == 2
\* how many setTimeout callbacks of announce may be pending (SpecAnnounce)
MaxTimers == 2

\* ------------------------------------------------------------- value sets
IdName == <<"A", "B", "C", "D", "E", "F">>
Ids == {IdName[i] : i \in 1..MaxStored}
\* dataTransfer.getData returns the empty string when no payload was set
NoPayload == ""

SP == " "
\* Text is a sequence of characters, so that trim() is computed, not assumed.
RawTexts == {<<>>, <<SP>>, <<"a">>, <<SP, "a", SP>>}

FILTER == [ALL |-> "all", ACTIVE |-> "active", COMPLETED |-> "completed"]
Filters == {FILTER.ALL, FILTER.ACTIVE, FILTER.COMPLETED}

NoMsg == "(none)"

VARIABLES
  tasks,          \* the in-memory array `tasks`
  currentFilter,  \* `currentFilter`
  storage,        \* localStorage: [tasks, filter, theme]
  rendered,       \* the list renderTasks last turned into taskList.innerHTML
  clock,          \* the last reading of Date.now()
  failures,       \* how many localStorage writes have thrown so far
  theme,          \* the theme applied to the document (themeSelect.value)
  live,           \* the live region statusEl: its textContent, the messages
                  \* of the setTimeout callbacks still pending, and the
                  \* message of the latest announce call
  last            \* the handler that ran last: its inputs, whether it called
                  \* saveTasks (saved), whether the write threw, and the
                  \* message it passed to announce

vars ==
  <<tasks, currentFilter, storage, rendered, clock, failures, theme, live, last>>

\* ------------------------------------------------------------- data model
Task(id, text, completed, order) ==
  [id |-> id, text |-> text, completed |-> completed, order |-> order]

\* String.prototype.trim: strips whitespace from both ends
RECURSIVE trimStart(_)
trimStart(s) ==
  IF s = <<>> THEN s
  ELSE IF Head(s) = SP THEN trimStart(Tail(s)) ELSE s

RECURSIVE trimEnd(_)
trimEnd(s) ==
  IF s = <<>> THEN s
  ELSE IF s[Len(s)] = SP THEN trimEnd(SubSeq(s, 1, Len(s) - 1)) ELSE s

trim(s) == trimEnd(trimStart(s))

\* ------------------------------------------------------------ persistence
\* The value stored under a key: null (key absent) or a JSON text.  A JSON
\* array of task objects is modelled as the sequence of its objects' fields.
NoData == [kind |-> "null", items |-> <<>>]
\* a text JSON.parse rejects, and a JSON text that is not an array
Malformed == [kind |-> "malformed", items |-> <<>>]
NotArray == [kind |-> "object", items |-> <<>>]
\* array elements that are no task objects: the literal null, and a value
\* with none of the four fields (such as {} or a number)
JsonNull == <<"null">>
EmptyObject == <<>>
\* what reading a field the element does not have yields
Undefined == "undefined"
UndefinedText == <<Undefined>>
\* the reading of Date.now() while initApp runs
StartTime == 1

\* mutant: the snapshot numbers the tasks by position instead of keeping order
stringifyRenumbered(ts) ==
  [kind |-> "array",
   items |-> [i \in 1..Len(ts) |->
                <<ts[i].id, ts[i].text, ts[i].completed, i>>]]

stringify(ts) ==
  [kind |-> "array",
   items |-> [i \in 1..Len(ts) |->
                <<ts[i].id, ts[i].text, ts[i].completed, ts[i].order>>]]

\* mutant: new Task(t.id, t.text) with the completed flag left to its default
loadTasksNoCompleted(data) ==
  IF data.kind = "array"
  THEN [i \in 1..Len(data.items) |->
          Task(data.items[i][1], data.items[i][2], FALSE, data.items[i][4])]
  ELSE <<>>

\* new Task(t.id, t.text, t.completed, t.order): an undefined completed or
\* order takes the constructor's default
revive(t) ==
  IF Len(t) = 4 THEN Task(t[1], t[2], t[3], t[4])
  ELSE Task(Undefined, UndefinedText, FALSE, StartTime)

\* JSON.parse and parsed.map inside try: a text that does not parse, a value
\* without map, and a null element (t.id throws) all end in the catch
loadTasks(data) ==
  IF data.kind = "array" /\ \A i \in 1..Len(data.items) : data.items[i] # JsonNull
  THEN [i \in 1..Len(data.items) |-> revive(data.items[i])]
  ELSE <<>>

\* ---------------------------------------------------------- array helpers
\* Array.prototype.findIndex on the id: 0-based, -1 when absent
findIndex(ts, id) ==
  IF \E i \in 1..Len(ts) : ts[i].id = id
  THEN (CHOOSE i \in 1..Len(ts) :
          ts[i].id = id /\ \A j \in 1..(i - 1) : ts[j].id # id) - 1
  ELSE -1

\* ts.splice(index, 1): the array without the element at 0-based index
spliceOut(ts, index) ==
  SubSeq(ts, 1, index) \o SubSeq(ts, index + 2, Len(ts))

\* ts.splice(index, 0, t): the array with t inserted at 0-based index
spliceIn(ts, index, t) ==
  SubSeq(ts, 1, index) \o <<t>> \o SubSeq(ts, index + 1, Len(ts))

IdsOf(ts) == {ts[i].id : i \in 1..Len(ts)}
IdSeq(ts) == [i \in 1..Len(ts) |-> ts[i].id]

\* crypto.randomUUID(): an id no task has.  Which one is immaterial, so the
\* model takes the first unused name.
randomUUID(ts) ==
  IdName[CHOOSE i \in 1..Len(IdName) :
           /\ IdName[i] \notin IdsOf(ts)
           /\ \A j \in 1..(i - 1) : IdName[j] \in IdsOf(ts)]

\* -------------------------------------------------------------- rendering
\* [...tasks].sort((a, b) => a.order - b.order): a stable sort
\* mutant: an unstable sort, which puts a task before the tasks of equal order
RECURSIVE insertSortedUnstable(_, _)
insertSortedUnstable(sorted, t) ==
  IF sorted = <<>> THEN <<t>>
  ELSE IF sorted[Len(sorted)].order < t.order THEN Append(sorted, t)
  ELSE Append(insertSortedUnstable(SubSeq(sorted, 1, Len(sorted) - 1), t),
              sorted[Len(sorted)])

RECURSIVE insertSorted(_, _)
insertSorted(sorted, t) ==
  IF sorted = <<>> THEN <<t>>
  ELSE IF sorted[Len(sorted)].order <= t.order THEN Append(sorted, t)
  ELSE Append(insertSorted(SubSeq(sorted, 1, Len(sorted) - 1), t),
              sorted[Len(sorted)])

RECURSIVE sortByOrder(_)
sortByOrder(ts) ==
  IF ts = <<>> THEN <<>>
  ELSE insertSorted(sortByOrder(SubSeq(ts, 1, Len(ts) - 1)), ts[Len(ts)])

passes(task, filter) ==
  IF filter = FILTER.ALL THEN TRUE
  ELSE IF filter = FILTER.ACTIVE THEN ~task.completed
  ELSE IF filter = FILTER.COMPLETED THEN task.completed
  ELSE TRUE

RECURSIVE applyFilter(_, _)
applyFilter(ts, filter) ==
  IF ts = <<>> THEN <<>>
  ELSE IF passes(Head(ts), filter)
       THEN <<Head(ts)>> \o applyFilter(Tail(ts), filter)
       ELSE applyFilter(Tail(ts), filter)

\* the list renderTasks turns into markup
renderTasks(ts, filter) == applyFilter(sortByOrder(ts), filter)

\* task.text.replace(...) throws a TypeError on a listed task whose text is
\* undefined
rendersOk(ts, filter) ==
  \A i \in 1..Len(ts) : passes(ts[i], filter) => ts[i].text # UndefinedText

\* ------------------------------------------------------ what a call yields
\* The outcome of one task function: the array it leaves in `tasks`, whether
\* it went on to saveTasks/renderTasks/announce (proceed) or returned early,
\* and the message it passes to announce.
Return(ts) == [tasks |-> ts, proceed |-> FALSE, msg |-> NoMsg]
Effect(ts, msg) == [tasks |-> ts, proceed |-> TRUE, msg |-> msg]

\* --------------------------------------------------------- ordering engine
\* mutant: always the target's index, also when dragging forward
insertAtTargetIndex(draggedIndex, targetIndex) == targetIndex

insertAt(draggedIndex, targetIndex) ==
  IF draggedIndex < targetIndex THEN targetIndex - 1 ELSE targetIndex

\* mutant: exchanges the dragged task and the target
moveTaskSwap(ts, draggedIndex, targetIndex) ==
  [ts EXCEPT ![draggedIndex + 1] = ts[targetIndex + 1],
             ![targetIndex + 1] = ts[draggedIndex + 1]]

\* tasks.splice(draggedIndex, 1) then tasks.splice(insertAt, 0, draggedTask)
moveTask(ts, draggedIndex, targetIndex) ==
  spliceIn(spliceOut(ts, draggedIndex),
           insertAt(draggedIndex, targetIndex),
           ts[draggedIndex + 1])

\* mutant: the order values are left as they were
reassignOrderSkipped(ts, now) == ts

\* tasks.forEach((t, i) => (t.order = now + i))
reassignOrder(ts, now) ==
  [i \in 1..Len(ts) |-> [ts[i] EXCEPT !.order = now + (i - 1)]]

\* mutant: a drop onto the dragged task itself is not ignored
onDropOntoSelf(ts, draggedId, targetId, now) ==
  IF draggedId = NoPayload THEN Return(ts)
  ELSE LET draggedIndex == findIndex(ts, draggedId)
           targetIndex == findIndex(ts, targetId)
       IN IF draggedIndex = -1 \/ targetIndex = -1 THEN Return(ts)
          ELSE Effect(reassignOrder(moveTask(ts, draggedIndex, targetIndex), now),
                      "Task reordered")

onDrop(ts, draggedId, targetId, now) ==
  IF draggedId = NoPayload \/ draggedId = targetId THEN Return(ts)
  ELSE LET draggedIndex == findIndex(ts, draggedId)
           targetIndex == findIndex(ts, targetId)
       IN IF draggedIndex = -1 \/ targetIndex = -1 THEN Return(ts)
          ELSE Effect(reassignOrder(moveTask(ts, draggedIndex, targetIndex), now),
                      "Task reordered")

\* ------------------------------------------------------ task manipulation
\* new Task(id, text): completed = false, order = Date.now()
addTask(ts, text, id, now) ==
  IF text = <<>> THEN Return(ts)
  ELSE Effect(Append(ts, Task(id, text, FALSE, now)), "Task added")

editTask(ts, id, newText) ==
  LET index == findIndex(ts, id)
  IN IF index = -1 THEN Return(ts)
     ELSE Effect([ts EXCEPT ![index + 1].text = newText], "Task edited")

\* mutant: no check of the index, so splice(-1, 1) removes the last task
deleteTaskUnchecked(ts, id) ==
  LET index == findIndex(ts, id)
  IN IF ts = <<>> THEN Return(ts)
     ELSE Effect(spliceOut(ts, IF index = -1 THEN Len(ts) - 1 ELSE index),
                 "Task deleted")

deleteTask(ts, id) ==
  LET index == findIndex(ts, id)
  IN IF index = -1 THEN Return(ts)
     ELSE Effect(spliceOut(ts, index), "Task deleted")

toggleComplete(ts, id) ==
  LET index == findIndex(ts, id)
  IN IF index = -1 THEN Return(ts)
     ELSE Effect([ts EXCEPT ![index + 1].completed = ~ts[index + 1].completed],
                 IF ~ts[index + 1].completed
                 THEN "Task completed" ELSE "Task marked as active")

\* mutant: saves, renders and announces whether or not a task was removed
clearCompletedAlways(ts) ==
  Effect(applyFilter(ts, FILTER.ACTIVE), "Completed tasks cleared")

clearCompleted(ts) ==
  LET kept == applyFilter(ts, FILTER.ACTIVE)
  IN IF Len(kept) # Len(ts) THEN Effect(kept, "Completed tasks cleared")
     ELSE Return(kept)

\* localStorage.setItem(STORAGE_KEY, JSON.stringify(tasks)); ok = FALSE is
\* the write throwing, which leaves the stored value as it was
saveTasks(st, ts, ok) ==
  IF ok THEN [st EXCEPT !.tasks = stringify(ts)] ELSE st

\* ---------------------------------------------------------------- actions
\* Each handler is written over the inputs its environment may give it: the
\* texts a user or caller passes, and whether localStorage.setItem may throw
\* (mayThrow) or always succeeds.
WriteOutcomes(mayThrow) ==
  IF mayThrow /\ failures < MaxFailures THEN BOOLEAN ELSE {TRUE}

Done(op, id, target, text, res, ok) ==
  [op |-> op, id |-> id, target |-> target, text |-> text,
   saved |-> res.proceed,
   threw |-> res.proceed /\ ~(ok /\ rendersOk(res.tasks, currentFilter)),
   msg |-> IF res.proceed /\ ok /\ rendersOk(res.tasks, currentFilter)
           THEN res.msg ELSE NoMsg]

\* mutant: a write that throws takes the change to tasks back
CommitRollback(res, ok) ==
  /\ tasks' = IF res.proceed /\ ~ok THEN tasks ELSE res.tasks
  /\ IF res.proceed
     THEN /\ storage' = saveTasks(storage, res.tasks, ok)
          /\ rendered' = IF ok /\ rendersOk(res.tasks, currentFilter)
                         THEN renderTasks(res.tasks, currentFilter)
                         ELSE rendered
          /\ failures' = IF ok THEN failures ELSE failures + 1
     ELSE UNCHANGED <<storage, rendered, failures>>
  /\ UNCHANGED <<currentFilter, theme>>

\* A task function's tail: tasks is already changed; saveTasks(), then, unless
\* the write threw, renderTasks() and, unless that threw, announce(msg).
Commit(res, ok) ==
  /\ tasks' = res.tasks
  /\ IF res.proceed
     THEN /\ storage' = saveTasks(storage, res.tasks, ok)
          /\ rendered' = IF ok /\ rendersOk(res.tasks, currentFilter)
                         THEN renderTasks(res.tasks, currentFilter)
                         ELSE rendered
          /\ failures' = IF ok THEN failures ELSE failures + 1
     ELSE UNCHANGED <<storage, rendered, failures>>
  /\ UNCHANGED <<currentFilter, theme>>

\* the form's submit handler (and Enter in the input): trims, then addTask
SubmitTask(texts, mayThrow) ==
  /\ Len(tasks) < MaxTasks
  /\ \E raw \in texts, now \in clock..MaxClock, ok \in WriteOutcomes(mayThrow) :
       LET text == trim(raw)
           id == randomUUID(tasks)
           res == IF text # <<>> THEN addTask(tasks, text, id, now)
                  ELSE Return(tasks)
       IN /\ Commit(res, ok)
          /\ clock' = IF res.proceed THEN now ELSE clock
          /\ last' = Done("submit", id, "", raw, res, ok)

\* window.todoApp.addTask(text), called directly
CallAddTask(texts, mayThrow) ==
  /\ Len(tasks) < MaxTasks
  /\ \E text \in texts, now \in clock..MaxClock, ok \in WriteOutcomes(mayThrow) :
       LET id == randomUUID(tasks)
           res == addTask(tasks, text, id, now)
       IN /\ Commit(res, ok)
          /\ clock' = IF res.proceed THEN now ELSE clock
          /\ last' = Done("addTask", id, "", text, res, ok)

\* the edit button / Ctrl+E with a prompt that was not cancelled
PromptEdit(texts, mayThrow) ==
  \E id \in Ids, raw \in texts, ok \in WriteOutcomes(mayThrow) :
    LET res == editTask(tasks, id, trim(raw))
    IN /\ Commit(res, ok)
       /\ UNCHANGED clock
       /\ last' = Done("promptEdit", id, "", raw, res, ok)

\* window.todoApp.editTask(id, newText), called directly
CallEditTask(texts, mayThrow) ==
  \E id \in Ids, text \in texts, ok \in WriteOutcomes(mayThrow) :
    LET res == editTask(tasks, id, text)
    IN /\ Commit(res, ok)
       /\ UNCHANGED clock
       /\ last' = Done("editTask", id, "", text, res, ok)

\* the delete button / Delete key once confirmed, or todoApp.deleteTask
DeleteTask(mayThrow) ==
  \E id \in Ids, ok \in WriteOutcomes(mayThrow) :
    LET res == deleteTask(tasks, id)
    IN /\ Commit(res, ok)
       /\ UNCHANGED clock
       /\ last' = Done("deleteTask", id, "", <<>>, res, ok)

\* the complete button / Ctrl+Enter, or todoApp.toggleComplete
ToggleComplete(mayThrow) ==
  \E id \in Ids, ok \in WriteOutcomes(mayThrow) :
    LET res == toggleComplete(tasks, id)
    IN /\ Commit(res, ok)
       /\ UNCHANGED clock
       /\ last' = Done("toggleComplete", id, "", <<>>, res, ok)

\* the clear-completed button, or todoApp.clearCompleted
ClearCompleted(mayThrow) ==
  \E ok \in WriteOutcomes(mayThrow) :
    LET res == clearCompleted(tasks)
    IN /\ Commit(res, ok)
       /\ UNCHANGED clock
       /\ last' = Done("clearCompleted", "", "", <<>>, res, ok)

\* a drop event on a rendered item; the payload is whatever was dragged
Drop(mayThrow) ==
  \E draggedId \in Ids \cup {NoPayload}, targetId \in Ids,
     now \in clock..MaxClock, ok \in WriteOutcomes(mayThrow) :
    LET res == onDrop(tasks, draggedId, targetId, now)
    IN /\ Commit(res, ok)
       /\ clock' = IF res.proceed THEN now ELSE clock
       /\ last' = Done("drop", draggedId, targetId, <<>>, res, ok)

\* filter.charAt(0).toUpperCase() + filter.slice(1)
FilterLabel(filter) ==
  CASE filter = "all" -> "All"
    [] filter = "active" -> "Active"
    [] filter = "completed" -> "Completed"

\* a filter button's click handler: no announcement
FilterClick(mayThrow) ==
  \E filter \in Filters, ok \in WriteOutcomes(mayThrow) :
    /\ currentFilter' = filter
    /\ storage' = IF ok THEN [storage EXCEPT !.filter = filter] ELSE storage
    /\ rendered' = IF ok /\ rendersOk(tasks, filter)
                   THEN renderTasks(tasks, filter) ELSE rendered
    /\ failures' = IF ok THEN failures ELSE failures + 1
    /\ UNCHANGED <<tasks, clock, theme>>
    /\ last' = [op |-> "filterClick", id |-> "", target |-> "", text |-> <<>>,
                saved |-> FALSE, threw |-> ~(ok /\ rendersOk(tasks, filter)),
                msg |-> NoMsg]

\* setFilter, reached by Alt+1/2/3
SetFilter(mayThrow) ==
  \E filter \in Filters, ok \in WriteOutcomes(mayThrow) :
    /\ currentFilter' = filter
    /\ storage' = IF ok THEN [storage EXCEPT !.filter = filter] ELSE storage
    /\ rendered' = IF ok /\ rendersOk(tasks, filter)
                   THEN renderTasks(tasks, filter) ELSE rendered
    /\ failures' = IF ok THEN failures ELSE failures + 1
    /\ UNCHANGED <<tasks, clock, theme>>
    /\ last' = [op |-> "setFilter", id |-> "", target |-> "", text |-> <<>>,
                saved |-> FALSE, threw |-> ~(ok /\ rendersOk(tasks, filter)),
                msg |-> IF ok /\ rendersOk(tasks, filter)
                        THEN FilterLabel(filter) \o " filter applied"
                        ELSE NoMsg]

\* value.charAt(0).toUpperCase() + value.slice(1)
ThemeLabel(value) ==
  CASE value = "vibrant" -> "Vibrant"
    [] value = "dark" -> "Dark"

Themes == {"vibrant", "dark"}

\* the theme selector's change handler: the class is switched before the
\* write, the announcement comes after it
ThemeChange(mayThrow) ==
  \E value \in Themes, ok \in WriteOutcomes(mayThrow) :
    /\ theme' = value
    /\ storage' = IF ok THEN [storage EXCEPT !.theme = value] ELSE storage
    /\ failures' = IF ok THEN failures ELSE failures + 1
    /\ UNCHANGED <<tasks, currentFilter, rendered, clock>>
    /\ last' = [op |-> "themeChange", id |-> "", target |-> "", text |-> <<>>,
                saved |-> FALSE, threw |-> ~ok,
                msg |-> IF ok THEN ThemeLabel(value) \o " theme selected"
                        ELSE NoMsg]

\* ------------------------------------------------------------ live region
\* announce(message): the region is emptied at once and a callback that will
\* write the message is queued.  Every callback has the same delay, so they
\* run in the order of the calls.
\* mutant: a debounce, each call cancelling the callbacks still pending
announceDebounced(region, message) ==
  [text |-> "", timers |-> <<message>>, latest |-> message]

announce(region, message) ==
  [text |-> "", timers |-> Append(region.timers, message), latest |-> message]

\* the setTimeout callback: statusEl.textContent = message
TimerFire ==
  /\ live.timers # <<>>
  /\ live' = [live EXCEPT !.text = Head(live.timers),
                          !.timers = Tail(live.timers)]
  /\ UNCHANGED <<tasks, currentFilter, storage, rendered, clock, failures,
                 theme, last>>

\* The handler of this step passed last'.msg to announce, if it passed any.
Heard ==
  live' = IF last'.msg = NoMsg THEN live ELSE announce(live, last'.msg)

\* The live region is written by announce and its callback only, and nothing
\* reads it: a specification that is not about it records the call to
\* announce in last.msg and leaves the region itself out.
Unheard == UNCHANGED live

NoCall ==
  [op |-> "init", id |-> "", target |-> "", text |-> <<>>,
   saved |-> FALSE, threw |-> FALSE, msg |-> NoMsg]

\* initApp: the saved theme (or 'vibrant'), loadTasks, the saved filter (or
\* FILTER.ALL), the initial render.  An exception in the render leaves
\* initApp, and the script, there (last.threw).
Started(stored) ==
  /\ storage = stored
  /\ theme = IF storage.theme = "" THEN "vibrant" ELSE storage.theme
  /\ tasks = loadTasks(storage.tasks)
  /\ currentFilter = IF storage.filter = "" THEN FILTER.ALL ELSE storage.filter
  /\ rendered = IF rendersOk(tasks, currentFilter)
                THEN renderTasks(tasks, currentFilter) ELSE <<>>
  /\ clock = StartTime
  /\ failures = 0
  /\ live = [text |-> "", timers |-> <<>>, latest |-> NoMsg]
  /\ last = [NoCall EXCEPT !.threw = ~rendersOk(tasks, currentFilter)]

\* a first run: nothing in localStorage ("" stands for an absent key)
Init == Started([tasks |-> NoData, filter |-> "", theme |-> ""])

\* every handler that works on the task store or the filter
Handlers(texts, mayThrow) ==
  \/ SubmitTask(texts, mayThrow) /\ Unheard
  \/ CallAddTask(texts, mayThrow) /\ Unheard
  \/ PromptEdit(texts, mayThrow) /\ Unheard
  \/ CallEditTask(texts, mayThrow) /\ Unheard
  \/ DeleteTask(mayThrow) /\ Unheard
  \/ ToggleComplete(mayThrow) /\ Unheard
  \/ ClearCompleted(mayThrow) /\ Unheard
  \/ Drop(mayThrow) /\ Unheard
  \/ FilterClick(mayThrow) /\ Unheard
  \/ SetFilter(mayThrow) /\ Unheard

\* The application on a store that accepts every write, with every text.
Next == Handlers(RawTexts, FALSE)

Spec == Init /\ [][Next]_vars

\* The task functions on a store whose writes may throw.  The submit and
\* prompt handlers only trim before they call addTask and editTask, and the
\* filter handlers leave the tasks alone, so the six functions are called as
\* they are.
QuotaTexts == {<<"a">>, <<"b">>}

NextQuota ==
  \/ CallAddTask(QuotaTexts, TRUE) /\ Unheard
  \/ CallEditTask(QuotaTexts, TRUE) /\ Unheard
  \/ DeleteTask(TRUE) /\ Unheard
  \/ ToggleComplete(TRUE) /\ Unheard
  \/ ClearCompleted(TRUE) /\ Unheard
  \/ Drop(TRUE) /\ Unheard

SpecQuota == Init /\ [][NextQuota]_vars

\* ------------------------------------------------- the ordering engine alone
\* The collections an earlier session can have left in localStorage: distinct
\* ids, any order values (equal and sparse ones included).
StoredCollections ==
  UNION {{[i \in 1..n |-> Task(ids[i], <<"a">>, FALSE, ords[i])] :
            ids \in {f \in [1..n -> Ids] :
                       \A i, j \in 1..n : i # j => f[i] # f[j]},
            ords \in [1..n -> 1..MaxOrder]} : n \in 0..MaxStored}

InitStored ==
  \E ts \in StoredCollections :
    Started([tasks |-> stringify(ts), filter |-> "", theme |-> ""])

\* drops on a store that accepts every write (SpecQuota has the throwing one)
NextReorder == Drop(FALSE) /\ Unheard

SpecReorder == InitStored /\ [][NextReorder]_vars

\* ------------------------------------- completing and clearing stored tasks
\* The same stored collections, with tasks completed and cleared, on a store
\* that accepts every write.
NextStored ==
  \/ ToggleComplete(FALSE) /\ Unheard
  \/ ClearCompleted(FALSE) /\ Unheard

SpecStored == InitStored /\ [][NextStored]_vars

\* ------------------------------------------------------------------ startup
\* localStorage belongs to the origin, not to this script: at startup the
\* three keys hold whatever was written there last.  The tasks key: nothing,
\* a text that is no JSON, JSON that is no array, or an array of task
\* objects and other elements.  The filter key: nothing, one of the three
\* filters, or some other string.  The theme key: nothing or a theme.
StartupItems ==
  {JsonNull, EmptyObject, <<"A", <<"a">>, FALSE, 1>>, <<"B", <<"a">>, TRUE, 2>>}

StartupDocs ==
  {NoData, Malformed, NotArray} \cup
  UNION {{[kind |-> "array", items |-> its] : its \in [1..n -> StartupItems]} :
           n \in 0..MaxItems}

OtherFilter == "other"
StartupFilters == Filters \cup {"", OtherFilter}
StartupThemes == Themes \cup {""}

InitStartup ==
  \E doc \in StartupDocs, filter \in StartupFilters, value \in StartupThemes :
    Started([tasks |-> doc, filter |-> filter, theme |-> value])

\* after startup the filter and the theme are changed; no task function runs
NextStartup ==
  \/ FilterClick(FALSE) /\ Unheard
  \/ SetFilter(FALSE) /\ Unheard
  \/ ThemeChange(FALSE) /\ Unheard

SpecStartup == InitStartup /\ [][NextStartup]_vars

\* ----------------------------------------------------------- every mutation
\* One handler of each kind that changes the tasks, the filter or the theme,
\* on a store that accepts every write.
MessageTexts == {<<"a">>}

NextMessages ==
  \/ SubmitTask(MessageTexts, FALSE) /\ Unheard
  \/ PromptEdit(MessageTexts, FALSE) /\ Unheard
  \/ DeleteTask(FALSE) /\ Unheard
  \/ ToggleComplete(FALSE) /\ Unheard
  \/ ClearCompleted(FALSE) /\ Unheard
  \/ Drop(FALSE) /\ Unheard
  \/ FilterClick(FALSE) /\ Unheard
  \/ SetFilter(FALSE) /\ Unheard
  \/ ThemeChange(FALSE) /\ Unheard

SpecMessages == Init /\ [][NextMessages]_vars

\* ----------------------------------------------------------- the live region
\* Two handlers that announce, one that does not, and the callbacks of
\* announce, in any interleaving.  The event loop runs every callback whose
\* delay has passed, hence the fairness on TimerFire.
HeardWithin == Heard /\ Len(live'.timers) <= MaxTimers

NextAnnounce ==
  \/ FilterClick(FALSE) /\ HeardWithin
  \/ SetFilter(FALSE) /\ HeardWithin
  \/ ThemeChange(FALSE) /\ HeardWithin
  \/ TimerFire

SpecAnnounce == Init /\ [][NextAnnounce]_vars /\ WF_vars(TimerFire)

\* ===================================================================
\* Claims about the ordering engine, checked under SpecReorder
\* ===================================================================
ABC ==
  <<Task("A", <<"a">>, FALSE, 1), Task("B", <<"a">>, FALSE, 2),
    Task("C", <<"a">>, FALSE, 3)>>

\* the step is a drop of dragged onto target
IsDrop(dragged, target) ==
  last'.op = "drop" /\ last'.id = dragged /\ last'.target = target

IndexOfId(ts, id) == (CHOOSE i \in 1..Len(ts) : ts[i].id = id) - 1

\* a collection's ids with one id left out
IdsWithout(ts, id) == SelectSeq(IdSeq(ts), LAMBDA x : x # id)

\* the text and completed flag each id carries
Contents(ts) ==
  {<<ts[i].id, ts[i].text, ts[i].completed>> : i \in 1..Len(ts)}

C3_FreshOrder ==
  (last.op = "drop" /\ last.saved) =>
    /\ \A i \in 1..Len(tasks) : tasks[i].order = clock + (i - 1)
    /\ \A i, j \in 1..Len(tasks) : i < j => tasks[i].order < tasks[j].order
    /\ renderTasks(tasks, FILTER.ALL) = tasks
    /\ (~last.threw /\ currentFilter = FILTER.ALL) => rendered = tasks

C3_Witness ==
  /\ last.op = "drop" /\ last.saved /\ ~last.threw /\ Len(tasks) = 3
  /\ rendered = tasks

\* C10: a drop with no payload, onto the dragged task itself, or with a
\* dragged or target id that is not in the collection changes neither the
\* sequence nor any order value, writes nothing and announces nothing.
C10_DropNoOp ==
  [][(/\ last'.op = "drop"
      /\ \/ last'.id = NoPayload
         \/ last'.id = last'.target
         \/ last'.id \notin IdsOf(tasks)
         \/ last'.target \notin IdsOf(tasks)) =>
       /\ tasks' = tasks
       /\ storage' = storage
       /\ ~last'.saved
       /\ last'.msg = NoMsg]_vars

C10_Witness ==
  /\ last.op = "drop" /\ ~last.saved
  /\ last.id \in IdsOf(tasks) /\ last.target \notin IdsOf(tasks)

\* ===================================================================
\* Claims about the task store
\* ===================================================================
AddOps == {"submit", "addTask"}
EditOps == {"promptEdit", "editTask"}
MutatingOps ==
  AddOps \cup EditOps \cup {"deleteTask", "toggleComplete", "clearCompleted", "drop"}

\* C4 (SpecQuota): once add, edit, remove, toggle, clearCompleted or reorder
\* has changed the collection and returned, the stored snapshot loads to
\* exactly the in-memory collection.
C4_SnapshotIsMemory ==
  (last.op \in MutatingOps /\ last.saved /\ ~last.threw) =>
    loadTasks(storage.tasks) = tasks

C4_Witness ==
  /\ last.op \in MutatingOps /\ last.saved /\ ~last.threw
  /\ failures = 1
  /\ Len(tasks) = 2 /\ tasks[1].completed /\ tasks[1].text # tasks[2].text

\* What an operation is to leave in memory, stated on its own: l is the call
\* (last'), ts the collection before it, now the clock reading it took.
Expected(l, ts, now) ==
  CASE l.op = "addTask" ->
         Append(ts, [id |-> l.id, text |-> l.text, completed |-> FALSE,
                     order |-> now])
    [] l.op = "editTask" ->
         [i \in 1..Len(ts) |->
            IF ts[i].id = l.id THEN [ts[i] EXCEPT !.text = l.text] ELSE ts[i]]
    [] l.op = "deleteTask" -> SelectSeq(ts, LAMBDA t : t.id # l.id)
    [] l.op = "toggleComplete" ->
         [i \in 1..Len(ts) |->
            IF ts[i].id = l.id THEN [ts[i] EXCEPT !.completed = ~ts[i].completed]
            ELSE ts[i]]
    [] l.op = "clearCompleted" -> SelectSeq(ts, LAMBDA t : ~t.completed)
    [] l.op = "drop" ->
         LET others == SelectSeq(ts, LAMBDA t : t.id # l.id)
             k == IndexOfId(others, l.target)
             moved == SubSeq(others, 1, k) \o <<ts[IndexOfId(ts, l.id) + 1]>>
                        \o SubSeq(others, k + 1, Len(others))
         IN [i \in 1..Len(moved) |-> [moved[i] EXCEPT !.order = now + (i - 1)]]

\* C5 (SpecQuota): when the write throws, memory holds exactly what the
\* operation produces when the write succeeds, and the operation that runs
\* next works on that in-memory collection.
C5_MemoryStands ==
  [][((last'.threw \/ last.threw) /\ last'.saved) =>
       tasks' = Expected(last', tasks, clock')]_vars

C5_Witness ==
  /\ last.threw /\ last.op = "drop"
  /\ loadTasks(storage.tasks) # tasks
  /\ IdSeq(loadTasks(storage.tasks)) # IdSeq(tasks)

\* C6 (Spec): a task created by add is not completed and is the last one of
\* the projection under the All filter right after its creation.
C6_AddedIsLast ==
  (last.op \in AddOps /\ last.saved) =>
    LET all == renderTasks(tasks, FILTER.ALL)
    IN /\ all[Len(all)].id = last.id
       /\ ~all[Len(all)].completed

\* C7 (Spec): no task is stored with leading or trailing whitespace.
C7_TextIsTrimmed ==
  \A i \in 1..Len(tasks) : trim(tasks[i].text) = tasks[i].text

\* C8 (Spec): add is a no-op when the text is empty after trimming (nothing
\* changes in memory or in storage); otherwise exactly one task is appended
\* and the collection is persisted.
C8_AddOrNothing ==
  [][last'.op \in AddOps =>
       IF trim(last'.text) = <<>>
       THEN tasks' = tasks /\ storage' = storage /\ ~last'.saved
       ELSE /\ Len(tasks') = Len(tasks) + 1
            /\ SubSeq(tasks', 1, Len(tasks)) = tasks
            /\ tasks'[Len(tasks')].id = last'.id
            /\ storage'.tasks = stringify(tasks')]_vars

\* C9 (Spec): edit, remove and toggleCompleted with an id that is not in the
\* collection change nothing in memory, write nothing and announce nothing.
C9_MissingIdNoOp ==
  [][(/\ last'.op \in EditOps \cup {"deleteTask", "toggleComplete"}
      /\ last'.id \notin IdsOf(tasks)) =>
       /\ tasks' = tasks
       /\ storage' = storage
       /\ ~last'.saved
       /\ last'.msg = NoMsg]_vars

C9_Witness ==
  /\ last.op = "deleteTask" /\ ~last.saved /\ last.id \notin IdsOf(tasks)
  /\ Len(tasks) = 2

\* ===================================================================
\* Claims about clearing and projecting, checked under SpecStored
\* ===================================================================
Completed(ts) == SelectSeq(ts, LAMBDA t : t.completed)
NotCompleted(ts) == SelectSeq(ts, LAMBDA t : ~t.completed)

\* C11: clearCompleted leaves exactly the tasks that were not completed, in
\* their order; it saves and announces only when it removed a task (and
\* then the write, unless it throws, stores the remaining tasks and the
\* message is announced), so a clearCompleted that follows a clearCompleted
\* neither writes nor announces.
C11_ClearCompleted ==
  [][last'.op = "clearCompleted" =>
       /\ tasks' = NotCompleted(tasks)
       /\ last'.saved <=> Completed(tasks) # <<>>
       /\ last'.msg # NoMsg => Completed(tasks) # <<>>
       /\ Completed(tasks) = <<>> => storage' = storage
       /\ (Completed(tasks) # <<>> /\ ~last'.threw) =>
            /\ storage'.tasks = stringify(tasks')
            /\ last'.msg = "Completed tasks cleared"
       /\ last.op = "clearCompleted" =>
            ~last'.saved /\ last'.msg = NoMsg /\ storage' = storage]_vars

\* a clearCompleted removed a task and kept another
C11_Witness ==
  /\ last.op = "clearCompleted" /\ last.saved /\ ~last.threw
  /\ Len(tasks) = 2
  /\ Len(storage.tasks.items) = 2

\* C12: loading what saveTasks writes for the collection gives the collection
\* back: the same length and, position by position, the same id, text,
\* completed flag and order.
C12_RoundTrip ==
  LET loaded == loadTasks(stringify(tasks))
  IN /\ Len(loaded) = Len(tasks)
     /\ \A i \in 1..Len(tasks) :
          /\ loaded[i].id = tasks[i].id
          /\ loaded[i].text = tasks[i].text
          /\ loaded[i].completed = tasks[i].completed
          /\ loaded[i].order = tasks[i].order

\* a saved collection of three tasks, completed and not, whose order values
\* do not follow their positions
C12_Witness ==
  /\ last.op = "toggleComplete" /\ last.saved
  /\ storage.tasks = stringify(tasks)
  /\ Len(tasks) = 3
  /\ tasks[1].completed /\ ~tasks[2].completed
  /\ tasks[1].order > tasks[2].order /\ tasks[2].order = tasks[3].order

\* C14: the projection is the collection sorted by ascending order, tasks of
\* equal order in their collection sequence, then filtered.  Under All it
\* holds every task once; the projections under Active and Completed share
\* no id, cover every id between them, and are the two sides of the split
\* of the All projection by the completed flag.
C14_Projection ==
  LET all == renderTasks(tasks, FILTER.ALL)
      active == renderTasks(tasks, FILTER.ACTIVE)
      completed == renderTasks(tasks, FILTER.COMPLETED)
  IN /\ Len(all) = Len(tasks)
     /\ IdsOf(all) = IdsOf(tasks)
     /\ \A i \in 1..Len(all) : all[i] = tasks[IndexOfId(tasks, all[i].id) + 1]
     /\ \A i, j \in 1..Len(all) :
          i < j =>
            \/ all[i].order < all[j].order
            \/ /\ all[i].order = all[j].order
               /\ IndexOfId(tasks, all[i].id) < IndexOfId(tasks, all[j].id)
     /\ active = NotCompleted(all)
     /\ completed = Completed(all)
     /\ IdsOf(active) \cap IdsOf(completed) = {}
     /\ IdsOf(active) \cup IdsOf(completed) = IdsOf(tasks)

\* the rendered list of three tasks, two of equal order after a lower third,
\* one of the two completed
C14_Witness ==
  /\ last.op = "toggleComplete" /\ ~last.threw
  /\ rendered = renderTasks(tasks, currentFilter)
  /\ Len(tasks) = 3
  /\ tasks[1].order = tasks[3].order /\ tasks[2].order < tasks[1].order
  /\ tasks[1].completed /\ ~tasks[3].completed
  /\ IdSeq(rendered) = <<tasks[2].id, tasks[1].id, tasks[3].id>>

\* ===================================================================
\* Claims about startup, checked under SpecStartup
\* ===================================================================
\* the stored value is a JSON array whose elements are all task objects
IsTaskList(doc) ==
  doc.kind = "array" /\ \A i \in 1..Len(doc.items) : Len(doc.items[i]) = 4

\* C13: when the value under the tasks key is missing, does not parse, or
\* parses to something that is not a sequence of task objects, startup ends
\* with an empty collection and reaches its initial render without an
\* exception.
C13_LoadFailsSoft ==
  (last.op = "init" /\ ~IsTaskList(storage.tasks)) =>
    /\ tasks = <<>>
    /\ ~last.threw
    /\ rendered = renderTasks(tasks, currentFilter)

\* C16: the current filter is always one of All, Active and Completed, right
\* after startup too, whatever the filter key held; and after a filter
\* change the filter key holds the current filter.
C16_FilterIsValid ==
  /\ currentFilter \in Filters
  /\ last.op \in {"filterClick", "setFilter"} => storage.filter = currentFilter

\* ===================================================================
\* Claims about announcements
\* ===================================================================
FilterOps == {"filterClick", "setFilter"}

\* C15 (SpecMessages): every handler that changed the tasks (add, edit,
\* delete, toggle, reorder, a clearCompleted that removed a task), the filter
\* (by button or by shortcut) or the theme, and whose write succeeded, passed
\* one message to announce.
C15_MutationAnnounced ==
  [][(\/ last'.op \in MutatingOps /\ last'.saved /\ ~last'.threw
      \/ last'.op \in FilterOps /\ ~last'.threw
           /\ currentFilter' # currentFilter
      \/ last'.op = "themeChange" /\ ~last'.threw /\ theme' # theme)
     => last'.msg # NoMsg]_vars

\* the messages the handlers of SpecAnnounce pass to announce
Messages ==
  {FilterLabel(f) \o " filter applied" : f \in Filters}
    \cup {ThemeLabel(v) \o " theme selected" : v \in Themes}

Pending(m) == \E i \in 1..Len(live.timers) : live.timers[i] = m

\* C20 (SpecAnnounce): every message passed to announce becomes the text of
\* the live region at some later point; when no callback is pending the live
\* region shows the message of the latest announce call; and a callback
\* changes the live region only.
C20_LiveRegion ==
  /\ \A m \in Messages : Pending(m) ~> (live.text = m)
  /\ []((live.timers = <<>> /\ live.latest # NoMsg) => live.text = live.latest)
  /\ [][Len(live'.timers) < Len(live.timers) =>
         UNCHANGED <<tasks, currentFilter, storage, rendered, theme>>]_vars

\* an earlier message is shown while the callback of the latest is pending
C20_Witness ==
  /\ live.text \in Messages
  /\ live.timers = <<live.latest>>
  /\ live.text # live.latest

\* ===================================================================
\* Claims about order values and positions, checked under Spec
\* ===================================================================
\* C17: whatever adds, edits, removals, toggles, clearCompleteds and reorders
\* ran since the empty store, the tasks array lists the tasks in the
\* sequence of the projection under All.
C17_ArrayIsProjection ==
  IdSeq(tasks) = IdSeq(renderTasks(tasks, FILTER.ALL))

\* C18: no two tasks of the collection have the same order value.
C18_OrdersDistinct ==
  \A i, j \in 1..Len(tasks) : i # j => tasks[i].order # tasks[j].order

\* ===================================================================
\* Claims about the rendered list, checked under SpecQuota
\* ===================================================================
\* C19: once a handler that changed the collection has returned, also when
\* its write to localStorage threw, the list handed to the renderer is the
\* projection of the collection under the current filter.
C19_RenderedIsProjection ==
  (last.op \in MutatingOps \cup FilterOps /\ (last.saved \/ last.op \in FilterOps))
    => rendered = renderTasks(tasks, currentFilter)

====
